---------------------------- MODULE Spec2Model ----------------------------
(***************************************************************************)
(* Purchase-order query API (backend/main.py): the Filter Builder          *)
(* (build_query_filters), the Sort Resolver (apply_sorting), the Cursor    *)
(* Codec (encode_cursor / decode_cursor) and the Pagination Engine         *)
(* (get_purchase_orders_paginated), over a store that create and delete    *)
(* requests change between page fetches.                                   *)
(*                                                                         *)
(* Representation.  Python's Optional[T] is a sequence of length 0 (None)  *)
(* or 1.  Text is a TLA+ string; Chars gives the spelling of the strings   *)
(* whose characters matter (LIKE matching, collation).  Floats with at     *)
(* most two decimals are integers counting hundredths.  Dates are days of  *)
(* January 2024.                                                           *)
(***************************************************************************)
EXTENDS Integers, Sequences, FiniteSets, TLC

VARIABLES
  db,        \* the purchase_orders table: a set of rows
  next_id,   \* the next value of the serial primary key
  req,       \* the client's query; its cursor field is that of the last request
  resp,      \* the response to the last page request
  pages,     \* the pages the client's traversal has fetched so far
  start_id,  \* the serial when the traversal began (rows with id >= it came later)
  deleted,   \* whether a row was deleted since the traversal began
  changed    \* whether the table changed since the last response

vars == <<db, next_id, req, resp, pages, start_id, deleted, changed>>

----------------------------------------------------------------------------
(* Bounds of the model *)

\* ids the serial primary key hands out in the general specification
MaxId == 3
\* largest page_size a client of the general specification asks for
MaxPageSize == 2
\* rows created during the 25-record scenario
MaxScenarioInserts == 2

(* Program constants *)

\* page_size: Query(20, ge=1, le=100)
PageSizeDefault == 20
PageSizeMin == 1
PageSizeMax == 100
\* min_price / max_price: Query(None, ge=0)
PriceMin == 0

----------------------------------------------------------------------------
(* Optional values *)

None == <<>>
Some(x) == <<x>>
Get(o) == o[1]

----------------------------------------------------------------------------
(* Text *)

\* the characters of the model's strings, in code-point order
Alphabet ==
  <<" ", "%", ".", "A", "C", "D", "E", "I", "L", "M", "P", "S", "T", "_",
    "a", "c", "d", "e", "g", "h", "i", "k", "l", "m", "n", "o", "p",
    "r", "s", "t", "u", "x">>

CodePoint(c) == CHOOSE i \in 1..Len(Alphabet) : Alphabet[i] = c

\* the spelling of every string whose characters the program looks at
Chars(s) ==
  CASE s = ""                 -> <<>>
    [] s = "Laptop"           -> <<"L","a","p","t","o","p">>
    [] s = "Desk"             -> <<"D","e","s","k">>
    [] s = "Mouse"            -> <<"M","o","u","s","e">>
    [] s = "TechCorp Inc."    -> <<"T","e","c","h","C","o","r","p"," ","I","n","c",".">>
    [] s = "TechCorp Laptops" -> <<"T","e","c","h","C","o","r","p"," ","L","a","p","t","o","p","s">>
    [] s = "Electronics"      -> <<"E","l","e","c","t","r","o","n","i","c","s">>
    [] s = "Premium grade item" -> <<"P","r","e","m","i","u","m"," ","g","r","a","d","e"," ","i","t","e","m">>
    [] s = "pending"          -> <<"p","e","n","d","i","n","g">>
    [] s = "shipped"          -> <<"s","h","i","p","p","e","d">>
    [] s = "laptop"           -> <<"l","a","p","t","o","p">>
    [] s = "LAP"              -> <<"L","A","P">>
    [] s = "xx"               -> <<"x","x">>
    [] s = "x"                -> <<"x">>
    [] s = "asc"              -> <<"a","s","c">>
    [] s = "desc"             -> <<"d","e","s","c">>
    [] s = "DESC"             -> <<"D","E","S","C">>
    [] s = "up"               -> <<"u","p">>
    [] s = "%"                -> <<"%">>
    [] s = "_"                -> <<"_">>

\* str.lower() / the case folding of ILIKE, one character
LowerChar(c) ==
  CASE c = "A" -> "a" [] c = "C" -> "c" [] c = "D" -> "d" [] c = "E" -> "e"
    [] c = "I" -> "i" [] c = "L" -> "l" [] c = "M" -> "m" [] c = "P" -> "p"
    [] c = "S" -> "s" [] c = "T" -> "t" [] OTHER -> c

Lower(cs) == [i \in 1..Len(cs) |-> LowerChar(cs[i])]

\* s contains t as a contiguous substring (sequences of characters)
Contains(s, t) ==
  \E i \in 0..(Len(s) - Len(t)) : SubSeq(s, i + 1, i + Len(t)) = t

\* lexicographic order of two spellings by code point
RECURSIVE SeqLess(_, _)
SeqLess(a, b) ==
  IF b = <<>> THEN FALSE
  ELSE IF a = <<>> THEN TRUE
  ELSE IF a[1] # b[1] THEN CodePoint(a[1]) < CodePoint(b[1])
  ELSE SeqLess(Tail(a), Tail(b))

\* SQL LIKE: % matches any run of characters, _ any one character
RECURSIVE Like(_, _)
Like(s, p) ==
  IF p = <<>> THEN s = <<>>
  ELSE IF p[1] = "%" THEN Like(s, Tail(p)) \/ (s # <<>> /\ Like(Tail(s), p))
  ELSE IF p[1] = "_" THEN s # <<>> /\ Like(Tail(s), Tail(p))
  ELSE s # <<>> /\ s[1] = p[1] /\ Like(Tail(s), Tail(p))

\* column.ilike(pattern): NULL never matches; otherwise LIKE after case folding
ilike(column, pattern) ==
  column # None /\ Like(Lower(Chars(Get(column))), Lower(pattern))

----------------------------------------------------------------------------
(* The purchase_orders table *)

OrderStatus == {"pending", "processing", "shipped", "delivered", "cancelled"}

\* create_purchase_order: total_price = quantity * unit_price, id from the serial
PurchaseOrder(id, o) ==
  [id |-> id, item_name |-> o.item_name, order_date |-> o.order_date,
   delivery_date |-> o.delivery_date, quantity |-> o.quantity,
   unit_price |-> o.unit_price, total_price |-> o.quantity * o.unit_price,
   status |-> o.status, description |-> o.description, vendor |-> o.vendor,
   shipping_address |-> o.shipping_address, category |-> o.category,
   notes |-> o.notes]

\* request bodies a client posts (PurchaseOrderCreate), after db_populate's samples
LaptopOrder ==
  [item_name |-> "Laptop", order_date |-> 2, delivery_date |-> 9, quantity |-> 2,
   unit_price |-> 25000, status |-> "pending", description |-> None,
   vendor |-> Some("TechCorp Inc."), shipping_address |-> None,
   category |-> Some("Electronics"), notes |-> None]

DeskOrder ==
  [item_name |-> "Desk", order_date |-> 1, delivery_date |-> 5, quantity |-> 1,
   unit_price |-> 9999, status |-> "shipped",
   description |-> Some("Premium grade item"),
   vendor |-> Some("TechCorp Laptops"), shipping_address |-> None,
   category |-> None, notes |-> None]

MouseOrder ==
  [item_name |-> "Mouse", order_date |-> 2, delivery_date |-> 5, quantity |-> 3,
   unit_price |-> 9999, status |-> "pending", description |-> None,
   vendor |-> None, shipping_address |-> None,
   category |-> Some("Electronics"), notes |-> None]

SampleOrders == {LaptopOrder, DeskOrder, MouseOrder}


Ids(rows) == {r.id : r \in rows}

\* the row with primary key id
RowOf(rows, id) == CHOOSE r \in rows : r.id = id

----------------------------------------------------------------------------
(* Python values and their str() *)

\* every value carries the same fields: t its type, and its payload in n (int,
\* float in hundredths, bool), s (str), l (list) or o (dict, keyed by strings)
PyNone == [t |-> "None", n |-> 0, s |-> "", l |-> <<>>, o |-> <<>>]
PyInt(n) == [t |-> "int", n |-> n, s |-> "", l |-> <<>>, o |-> <<>>]
PyFloat(c) == [t |-> "float", n |-> c, s |-> "", l |-> <<>>, o |-> <<>>]
PyStr(s) == [t |-> "str", n |-> 0, s |-> s, l |-> <<>>, o |-> <<>>]
PyList(l) == [t |-> "list", n |-> 0, s |-> "", l |-> l, o |-> <<>>]
PyDict(o) == [t |-> "dict", n |-> 0, s |-> "", l |-> <<>>, o |-> o]

\* bool(v), as `if v:` evaluates it
Truthy(v) ==
  CASE v.t = "None" -> FALSE
    [] v.t \in {"int", "float"} -> v.n # 0
    [] v.t = "str"  -> v.s # ""
    [] v.t = "list" -> v.l # <<>>
    [] v.t = "dict" -> DOMAIN v.o # {}

Digit(d) == SubSeq(<<"0","1","2","3","4","5","6","7","8","9">>, d + 1, d + 1)[1]

\* str(int)
IntStr(n) == ToString(n)

\* str(float): repr of a float with at most two decimals, given in hundredths
FloatStr(c) ==
  IntStr(c \div 100) \o "." \o
    (IF c % 10 = 0 THEN Digit((c % 100) \div 10)
     ELSE Digit((c % 100) \div 10) \o Digit(c % 10))

\* str(date): ISO format of a day of January 2024
DateStr(d) == "2024-01-" \o Digit(d \div 10) \o Digit(d % 10)

\* str(v)
str(v) ==
  CASE v.t = "int"   -> IntStr(v.n)
    [] v.t = "float" -> FloatStr(v.n)
    [] v.t = "str"   -> v.s

----------------------------------------------------------------------------
(* Cursor Codec *)

\* the outcome of a call: a value, or an exception raised
Ok(v) == [ok |-> TRUE, v |-> v]
Raise(e) == [ok |-> FALSE, exc |-> e]

\* Texts: a JSON document (of the value it denotes) or any other text.
\* Bytes: the UTF-8 encoding of a text, or bytes that are no UTF-8.
\* Cursor strings: the base64 form of some bytes, a string whose base64
\* padding is wrong, or the empty string.
NotJson == [k |-> "text"]
NotUtf8 == [k |-> "binary"]
BadPadding == [k |-> "badpad"]
EmptyString == [k |-> "empty"]

\* json.dumps(v)
json_dumps(v) == [k |-> "json", v |-> v]

\* json.loads(text): JSON null loads as None
json_loads(text) ==
  IF text.k = "json" THEN Ok(text.v) ELSE Raise("JSONDecodeError")

\* text.encode()
encode(text) == [k |-> "utf8", text |-> text]

\* bytes.decode()
decode(bytes) ==
  IF bytes.k = "utf8" THEN Ok(bytes.text) ELSE Raise("UnicodeDecodeError")

\* base64.urlsafe_b64encode(bytes).decode()
urlsafe_b64encode(bytes) == [k |-> "b64", bytes |-> bytes]

\* base64.urlsafe_b64decode(cursor.encode()): the empty string is b""
urlsafe_b64decode(cursor) ==
  CASE cursor.k = "b64"   -> Ok(cursor.bytes)
    [] cursor.k = "empty" -> Ok(encode(NotJson))
    [] OTHER              -> Raise("binascii.Error")

\* encode_cursor with a fault: the sort value is stored without str()
encode_cursor_RawValue(order_id, sort_field, sort_value) ==
  urlsafe_b64encode(encode(json_dumps(
    PyDict([id |-> PyInt(order_id), sort_field |-> PyStr(sort_field),
            sort_value |-> sort_value]))))

\* encode_cursor(order_id, sort_field, sort_value)
encode_cursor(order_id, sort_field, sort_value) ==
  LET cursor_data == PyDict([id |-> PyInt(order_id),
                             sort_field |-> PyStr(sort_field),
                             sort_value |-> PyStr(str(sort_value))])
  IN  urlsafe_b64encode(encode(json_dumps(cursor_data)))

\* the body of decode_cursor's try block
decode_cursor_try(cursor) ==
  LET raw == urlsafe_b64decode(cursor)
      decoded == decode(raw.v)
  IN  IF ~raw.ok THEN raw
      ELSE IF ~decoded.ok THEN decoded
      ELSE json_loads(decoded.v)

\* decode_cursor(cursor): the bare except turns every exception into None
decode_cursor(cursor) ==
  LET r == decode_cursor_try(cursor)
  IN  IF r.ok THEN r.v ELSE PyNone

----------------------------------------------------------------------------
(* Filter Builder *)

\* `if text:` on an Optional[str]: None and "" are both falsy
Given(text) == text # None /\ Get(text) # ""

\* build_query_filters: the rows of the table the composed WHERE clause keeps.
\* A comparison with a NULL column is not true, so the row is dropped.
build_query_filters(rows, search, status, category, vendor, min_price, max_price, min_date, max_date) ==
  LET search_pattern == <<"%">> \o Chars(Get(search)) \o <<"%">>
      search_filter(r) ==
        \/ ilike(Some(r.item_name), search_pattern)
        \/ ilike(r.description, search_pattern)
        \/ ilike(r.vendor, search_pattern)
        \/ ilike(r.category, search_pattern)
  IN  {r \in rows :
         /\ Given(search) => search_filter(r)
         /\ Given(status) => r.status = Get(status)
         /\ Given(category) => r.category = category
         /\ Given(vendor) => r.vendor = vendor
         /\ min_price # None => r.total_price >= Get(min_price)
         /\ max_price # None => r.total_price <= Get(max_price)
         /\ min_date # None => r.order_date >= Get(min_date)
         /\ max_date # None => r.order_date <= Get(max_date)}

----------------------------------------------------------------------------
(* Sort Resolver *)

\* the keys of sort_field_map
SortKeys == {"id", "order_date", "delivery_date", "total_price", "item_name",
             "status", "quantity", "unit_price"}

TextKeys == {"item_name", "status"}

\* SortColumn with a fault: an unknown key falls back to the order date
SortColumn_FallbackDate(sort_by) == IF sort_by \in SortKeys THEN sort_by ELSE "order_date"

\* sort_field_map.get(sort_by, PurchaseOrder.id): the column ordered by
SortColumn(sort_by) == IF sort_by \in SortKeys THEN sort_by ELSE "id"

\* column value a sorts strictly before b in ascending order (text columns
\* by code point, the others numerically)
ColumnLess(col, a, b) ==
  IF col \in TextKeys THEN SeqLess(Chars(a), Chars(b)) ELSE a < b

\* sort_order.lower() == "desc"
IsDesc(sort_order) == Lower(Chars(sort_order)) = Chars("desc")

\* OrderedBefore with a fault: the id tie-break is ascending in both directions
OrderedBefore_TieAscending(a, b, col, desc) ==
  IF desc
  THEN \/ ColumnLess(col, b[col], a[col])
       \/ (a[col] = b[col] /\ a.id < b.id)
  ELSE \/ ColumnLess(col, a[col], b[col])
       \/ (a[col] = b[col] /\ a.id < b.id)

\* row a comes before row b under ORDER BY col dir, id dir
OrderedBefore(a, b, col, desc) ==
  IF desc
  THEN \/ ColumnLess(col, b[col], a[col])
       \/ (a[col] = b[col] /\ a.id > b.id)
  ELSE \/ ColumnLess(col, a[col], b[col])
       \/ (a[col] = b[col] /\ a.id < b.id)

\* the rows of a query in the order its ORDER BY gives
RECURSIVE Ordered(_, _, _)
Ordered(rows, col, desc) ==
  IF rows = {} THEN <<>>
  ELSE LET first == CHOOSE r \in rows :
                      \A o \in rows \ {r} : OrderedBefore(r, o, col, desc)
       IN  <<first>> \o Ordered(rows \ {first}, col, desc)

\* apply_sorting(query, sort_by, sort_order)
apply_sorting(query, sort_by, sort_order) ==
  Ordered(query, SortColumn(sort_by), IsDesc(sort_order))

----------------------------------------------------------------------------
(* Pagination Engine *)

\* the Query(...) constraints FastAPI checks before the handler runs
ValidRequest(q) ==
  /\ q.page_size >= PageSizeMin /\ q.page_size <= PageSizeMax
  /\ q.sort_order \in {"asc", "desc"}
  /\ q.min_price # None => Get(q.min_price) >= PriceMin
  /\ q.max_price # None => Get(q.max_price) >= PriceMin

\* cursor_data.get("id")
dict_get_id(cursor_data) ==
  IF "id" \in DOMAIN cursor_data.o THEN cursor_data.o["id"] ELSE PyNone

\* the integer a text literal denotes to the store, if it denotes one
IntLiteral(s) ==
  IF \E n \in 0..99 : IntStr(n) = s
  THEN Some(CHOOSE n \in 0..99 : IntStr(n) = s)
  ELSE None

\* IdAfter with a fault: the comparison includes the cursor's own row
IdAfter_Inclusive(orders, cursor_id, desc) ==
  IF desc THEN SelectSeq(orders, LAMBDA r : r.id <= cursor_id)
  ELSE SelectSeq(orders, LAMBDA r : r.id >= cursor_id)

\* the rows of `orders` the store keeps under PurchaseOrder.id < cursor_id
\* (desc) or PurchaseOrder.id > cursor_id (asc) with an integer bound
IdAfter(orders, cursor_id, desc) ==
  IF desc THEN SelectSeq(orders, LAMBDA r : r.id < cursor_id)
  ELSE SelectSeq(orders, LAMBDA r : r.id > cursor_id)

\* the continuation predicate as the store evaluates it for the bound value
\* the handler passes: NULL compares true with nothing, a text literal is
\* read as an integer or refused, any other type has no such operator
continuation(orders, cursor_id, desc) ==
  CASE cursor_id.t = "int"  -> Ok(IdAfter(orders, cursor_id.n, desc))
    [] cursor_id.t = "None" -> Ok(<<>>)
    [] cursor_id.t = "str"  ->
         IF IntLiteral(cursor_id.s) # None
         THEN Ok(IdAfter(orders, Get(IntLiteral(cursor_id.s)), desc))
         ELSE Raise("DataError")
    [] OTHER -> Raise("ProgrammingError")

\* apply_cursor with a fault: the row the cursor was minted from is looked up
\* and the request fails when it is gone
apply_cursor_AnchorLookup(orders, cursor, sort_order) ==
  IF cursor = None \/ Get(cursor).k = "empty" THEN Ok(orders)
  ELSE LET cursor_data == decode_cursor(Get(cursor))
       IN  IF ~Truthy(cursor_data) THEN Ok(orders)
           ELSE IF cursor_data.t # "dict" THEN Raise("AttributeError")
           ELSE IF \A i \in 1..Len(orders) : PyInt(orders[i].id) # dict_get_id(cursor_data)
                THEN Raise("NoResultFound")
           ELSE continuation(orders, dict_get_id(cursor_data), IsDesc(sort_order))

\* apply_cursor with a fault: a cursor without a sort value is ignored
apply_cursor_NeedsSortValue(orders, cursor, sort_order) ==
  IF cursor = None \/ Get(cursor).k = "empty" THEN Ok(orders)
  ELSE LET cursor_data == decode_cursor(Get(cursor))
       IN  IF ~Truthy(cursor_data) THEN Ok(orders)
           ELSE IF cursor_data.t # "dict" THEN Raise("AttributeError")
           ELSE IF "sort_value" \notin DOMAIN cursor_data.o THEN Ok(orders)
           ELSE continuation(orders, dict_get_id(cursor_data), IsDesc(sort_order))

\* `if cursor: ... if cursor_data: ...`: the query after cursor handling
apply_cursor(orders, cursor, sort_order) ==
  IF cursor = None \/ Get(cursor).k = "empty" THEN Ok(orders)
  ELSE LET cursor_data == decode_cursor(Get(cursor))
       IN  IF ~Truthy(cursor_data) THEN Ok(orders)
           ELSE IF cursor_data.t # "dict" THEN Raise("AttributeError")
           ELSE continuation(orders, dict_get_id(cursor_data), IsDesc(sort_order))

\* query.limit(page_size + 1).all()
fetch(orders, page_size) ==
  IF Len(orders) > page_size + 1 THEN SubSeq(orders, 1, page_size + 1) ELSE orders

\* has_next_of with a fault: a full page counts as having a successor
has_next_of_AtLeast(orders, page_size) == Len(orders) >= page_size

\* has_next = len(orders) > page_size
has_next_of(orders, page_size) == Len(orders) > page_size

\* orders[:page_size] when has_next
trim(orders, page_size) ==
  IF has_next_of(orders, page_size) THEN SubSeq(orders, 1, page_size) ELSE orders

\* has_prev_of with a fault: only a cursor that decodes counts
has_prev_of_Decoded(cursor) ==
  cursor # None /\ Get(cursor).k # "empty" /\ Truthy(decode_cursor(Get(cursor)))

\* has_prev = cursor is not None
has_prev_of(cursor) == cursor # None

\* the handler's sort_field_map.get(sort_by, last_order.id)
sort_value_of(last_order, sort_by) ==
  CASE sort_by = "id"            -> PyInt(last_order.id)
    [] sort_by = "order_date"    -> PyStr(DateStr(last_order.order_date))
    [] sort_by = "delivery_date" -> PyStr(DateStr(last_order.delivery_date))
    [] sort_by = "total_price"   -> PyFloat(last_order.total_price)
    [] sort_by = "item_name"     -> PyStr(last_order.item_name)
    [] sort_by = "status"        -> PyStr(last_order.status)
    [] sort_by = "quantity"      -> PyInt(last_order.quantity)
    [] sort_by = "unit_price"    -> PyFloat(last_order.unit_price)
    [] OTHER                     -> PyInt(last_order.id)

\* next_cursor_of with a fault: the cursor is minted from the first row of the page
next_cursor_of_FirstRow(orders, has_next, sort_by) ==
  IF has_next /\ orders # <<>>
  THEN Some(encode_cursor(orders[1].id, sort_by, sort_value_of(orders[1], sort_by)))
  ELSE None

\* next_cursor: minted from the last row of the trimmed page when has_next
next_cursor_of(orders, has_next, sort_by) ==
  IF has_next /\ orders # <<>>
  THEN LET last_order == orders[Len(orders)]
       IN  Some(encode_cursor(last_order.id, sort_by,
                              sort_value_of(last_order, sort_by)))
  ELSE None

\* GET /api/purchase-orders/paginated: the response to request q on table rows
get_purchase_orders_paginated(rows, q) ==
  IF ~ValidRequest(q) THEN [status |-> 422]
  ELSE
    LET query == build_query_filters(rows, q.search, q.status, q.category,
                   q.vendor, q.min_price, q.max_price, q.min_date, q.max_date)
        sorted == apply_sorting(query, q.sort_by, q.sort_order)
        after == apply_cursor(sorted, q.cursor, q.sort_order)
    IN  IF ~after.ok THEN [status |-> 500, exc |-> after.exc]
        ELSE
          LET fetched == fetch(after.v, q.page_size)
              has_next == has_next_of(fetched, q.page_size)
              orders == trim(fetched, q.page_size)
          IN  [status |-> 200,
               data |-> orders,
               meta |-> [cursor |-> next_cursor_of(orders, has_next, q.sort_by),
                         has_next |-> has_next,
                         has_prev |-> has_prev_of(q.cursor),
                         page_size |-> q.page_size]]

----------------------------------------------------------------------------
(* Clients and the store *)

\* a request with every parameter at its declared default
DefaultRequest ==
  [cursor |-> None, page_size |-> PageSizeDefault, sort_by |-> "id",
   sort_order |-> "asc", search |-> None, status |-> None, category |-> None,
   vendor |-> None, min_price |-> None, max_price |-> None,
   min_date |-> None, max_date |-> None]

\* the traversals of the general specification: every sort key and direction
Requests ==
  {[DefaultRequest EXCEPT !.page_size = n, !.sort_by = k, !.sort_order = d,
                          !.status = st] :
     n \in 1..MaxPageSize, k \in SortKeys, d \in {"asc", "desc"},
     st \in {None, Some("pending")}}

\* the cursor string whose base64 and JSON decoding gives v
TokenOf(v) == urlsafe_b64encode(encode(json_dumps(v)))

\* cursor strings a client can make up instead of echoing a minted one
ForgedCursors ==
  << EmptyString,
     BadPadding,
     urlsafe_b64encode(NotUtf8),
     urlsafe_b64encode(encode(NotJson)),
     TokenOf(PyNone),
     TokenOf(PyList(<<>>)),
     TokenOf(PyList(<<PyInt(1)>>)),
     TokenOf(PyInt(0)),
     TokenOf(PyInt(5)),
     TokenOf(PyStr("x")),
     TokenOf(PyDict(<<>>)),
     TokenOf(PyDict([a |-> PyInt(1)])),
     TokenOf(PyDict([id |-> PyNone])),
     TokenOf(PyDict([id |-> PyStr("x")])),
     TokenOf(PyDict([id |-> PyStr("2")])),
     TokenOf(PyDict([id |-> PyInt(1)])),
     TokenOf(PyDict([id |-> PyInt(2)])),
     encode_cursor(1, "total_price", PyFloat(50000)),
     encode_cursor(2, "item_name", PyStr("Desk")) >>

NoResponse == [status |-> 0]

\* a fresh database and a client that has settled on query q
InitWith(queries) ==
  /\ db = {}
  /\ next_id = 1
  /\ req \in queries
  /\ resp = NoResponse
  /\ pages = <<>>
  /\ start_id = 1
  /\ deleted = FALSE
  /\ changed = FALSE

Init == InitWith(Requests)

\* the client asks for the first page (no cursor)
FirstPage ==
  /\ req' = [req EXCEPT !.cursor = None]
  /\ resp' = get_purchase_orders_paginated(db, req')
  /\ pages' = IF resp'.status = 200 THEN <<resp'.data>> ELSE <<>>
  /\ start_id' = next_id
  /\ deleted' = FALSE
  /\ changed' = FALSE
  /\ UNCHANGED <<db, next_id>>

\* the client feeds the cursor of the last page to the next request
NextPage ==
  /\ pages # <<>>
  /\ resp.status = 200
  /\ resp.meta.cursor # None
  /\ req' = [req EXCEPT !.cursor = resp.meta.cursor]
  /\ resp' = get_purchase_orders_paginated(db, req')
  /\ pages' = IF resp'.status = 200 THEN Append(pages, resp'.data) ELSE pages
  /\ changed' = FALSE
  /\ UNCHANGED <<db, next_id, start_id, deleted>>

\* the client sends a cursor string of its own making
ForgedPage ==
  \E i \in 1..Len(ForgedCursors) :
    /\ req' = [req EXCEPT !.cursor = Some(ForgedCursors[i])]
    /\ resp' = get_purchase_orders_paginated(db, req')
    /\ pages' = <<>>
    /\ start_id' = next_id
    /\ deleted' = FALSE
    /\ changed' = FALSE
    /\ UNCHANGED <<db, next_id>>

\* POST /api/purchase-orders with a body of `orders`, while the serial is at
\* most `limit`
create_purchase_order(orders, limit) ==
  \E order \in orders :
    /\ next_id <= limit
    /\ db' = db \cup {PurchaseOrder(next_id, order)}
    /\ next_id' = next_id + 1
    /\ start_id' = IF pages = <<>> THEN next_id' ELSE start_id
    /\ changed' = (resp # NoResponse)
    /\ UNCHANGED <<req, resp, pages, deleted>>

\* DELETE /api/purchase-orders/{order_id} of a row that exists (an unknown
\* order_id is answered 404 and changes nothing)
delete_purchase_order ==
  \E order_id \in Ids(db) :
    /\ db' = db \ {RowOf(db, order_id)}
    /\ deleted' = (pages # <<>>)
    /\ changed' = (resp # NoResponse)
    /\ UNCHANGED <<next_id, req, resp, pages, start_id>>

Next ==
  \/ FirstPage
  \/ NextPage
  \/ create_purchase_order(SampleOrders, MaxId)
  \/ delete_purchase_order

Spec == Init /\ [][Next]_vars

----------------------------------------------------------------------------
(* Clients that make up cursor strings *)

CursorRequests ==
  {[DefaultRequest EXCEPT !.page_size = n, !.sort_by = k, !.sort_order = d] :
     n \in 1..MaxPageSize, k \in {"id", "status"}, d \in {"asc", "desc"}}

InitCursor == InitWith(CursorRequests)

NextCursor ==
  \/ FirstPage
  \/ NextPage
  \/ ForgedPage
  \/ create_purchase_order({LaptopOrder, DeskOrder}, MaxId)

SpecCursor == InitCursor /\ [][NextCursor]_vars

----------------------------------------------------------------------------
(* The 25-record scenario under an insert-only workload *)

ScenarioIds == 1..25

ScenarioOrder(i) ==
  CASE i % 3 = 1 -> LaptopOrder [] i % 3 = 2 -> DeskOrder [] OTHER -> MouseOrder

ScenarioRows == {PurchaseOrder(i, ScenarioOrder(i)) : i \in ScenarioIds}

\* identity-ascending traversals, with the scenario's page size among them
ScenarioRequests ==
  {[DefaultRequest EXCEPT !.page_size = n, !.status = st] :
     n \in {MaxPageSize, 10}, st \in {None, Some("pending")}}

InitScenario ==
  /\ db = ScenarioRows
  /\ next_id = Cardinality(ScenarioIds) + 1
  /\ req \in ScenarioRequests
  /\ resp = NoResponse
  /\ pages = <<>>
  /\ start_id = next_id
  /\ deleted = FALSE
  /\ changed = FALSE

NextScenario ==
  \/ FirstPage
  \/ NextPage
  \/ create_purchase_order(SampleOrders, Cardinality(ScenarioIds) + MaxScenarioInserts)

SpecScenario == InitScenario /\ [][NextScenario]_vars

----------------------------------------------------------------------------
(* Clients that vary the filter criteria *)

\* how many kinds of criterion (search, equality, price, date) q supplies
CriteriaKinds(q) ==
  (IF q.search # None THEN 1 ELSE 0)
  + (IF q.status # None \/ q.category # None \/ q.vendor # None THEN 1 ELSE 0)
  + (IF q.min_price # None \/ q.max_price # None THEN 1 ELSE 0)
  + (IF q.min_date # None \/ q.max_date # None THEN 1 ELSE 0)

AllFilterRequests ==
  {[DefaultRequest EXCEPT !.search = se, !.status = st, !.category = ca,
                          !.vendor = ve, !.min_price = lo, !.max_price = hi,
                          !.min_date = d0, !.max_date = d1] :
     se \in {None, Some(""), Some("laptop"), Some("LAP"), Some("xx"), Some("_")},
     st \in {None, Some("pending")},
     ca \in {None, Some("Electronics")},
     ve \in {None, Some("TechCorp Laptops")},
     lo \in {None, Some(0), Some(10000)},
     hi \in {None, Some(50000)},
     d0 \in {None, Some(2)},
     d1 \in {None, Some(1)}}

\* requests that combine at most two kinds of criterion
FilterRequests == {q \in AllFilterRequests : CriteriaKinds(q) <= 2}

InitFilter == InitWith(FilterRequests)

NextFilter ==
  \/ FirstPage
  \/ create_purchase_order(SampleOrders, MaxId)

SpecFilter == InitFilter /\ [][NextFilter]_vars

----------------------------------------------------------------------------
(* Callers of the Sort Resolver with keys and directions of any spelling *)

\* sort_by is not validated by the endpoint; sort_order is, so a direction
\* other than asc/desc reaches apply_sorting only when it is called directly
SortRequests ==
  {[DefaultRequest EXCEPT !.page_size = n, !.sort_by = k, !.sort_order = d] :
     n \in 1..MaxPageSize, k \in {"id", "status", "bogus"},
     d \in {"asc", "desc", "DESC", "up"}}

InitSort == InitWith(SortRequests)

\* apply_sorting(db.query(PurchaseOrder), sort_by, sort_order) called directly:
\* no HTTP response, the ordering obtained is kept in data
ApplySorting ==
  /\ resp' = [status |-> 0,
              data |-> apply_sorting(db, req.sort_by, req.sort_order)]
  /\ pages' = <<>>
  /\ start_id' = next_id
  /\ deleted' = FALSE
  /\ changed' = FALSE
  /\ UNCHANGED <<db, next_id, req>>

NextSort ==
  \/ ApplySorting
  \/ FirstPage
  \/ create_purchase_order(SampleOrders, MaxId)

SpecSort == InitSort /\ [][NextSort]_vars

----------------------------------------------------------------------------
(* Properties *)

\* the rows of rows that request q's filters select
Matching(rows, q) ==
  build_query_filters(rows, q.search, q.status, q.category, q.vendor,
                      q.min_price, q.max_price, q.min_date, q.max_date)

\* the pages of a traversal laid end to end
RECURSIVE Concat(_)
Concat(pp) == IF pp = <<>> THEN <<>> ELSE Head(pp) \o Concat(Tail(pp))

Rows(seq) == {seq[i] : i \in 1..Len(seq)}

IdsOf(seq) == [i \in 1..Len(seq) |-> seq[i].id]

\* the traversal has reached a page without a successor
TraversalDone == pages # <<>> /\ resp.status = 200 /\ ~resp.meta.has_next

\* a comes before b in the composite order (value of key, id) of direction order
CompositeBefore(a, b, key, order) ==
  LET less(x, y) == IF key \in {"item_name", "status"}
                    THEN SeqLess(Chars(x), Chars(y)) ELSE x < y
  IN  IF order = "desc"
      THEN less(b[key], a[key]) \/ (a[key] = b[key] /\ b.id < a.id)
      ELSE less(a[key], b[key]) \/ (a[key] = b[key] /\ a.id < b.id)

\* C1: identity-ascending traversal of a store that only receives inserts: when
\* the last page (has_next = false) has just been fetched, the pages laid end to
\* end are strictly ascending by id and hold every row that matches the filters
\* and is in the store; and with the 25 scenario rows, no filter and
\* page_size = 10 the k-th page holds ids 10(k-1)+1 .. min(10k, 25) and has_next
\* is true on pages 1 and 2 and false on page 3.
C1_InsertOnlyIdAscending ==
  /\ (TraversalDone /\ ~changed /\ ~deleted
        /\ req.sort_by = "id" /\ req.sort_order = "asc") =>
       LET seen == Concat(pages)
       IN  /\ \A i \in 1..(Len(seen) - 1) : seen[i].id < seen[i + 1].id
           /\ \A r \in Matching(db, req) : \E i \in 1..Len(seen) : seen[i] = r
  /\ (pages # <<>> /\ resp.status = 200 /\ db = ScenarioRows
        /\ req.sort_by = "id" /\ req.sort_order = "asc"
        /\ req.page_size = 10 /\ req.status = None) =>
       LET k == Len(pages)
       IN  /\ k <= 3
           /\ IdsOf(pages[k]) =
                [i \in 1..(IF k < 3 THEN 10 ELSE 5) |-> 10 * (k - 1) + i]
           /\ resp.meta.has_next = (k < 3)

\* C1 witness: a finished three-page traversal with page_size = 10 whose last
\* page holds a row created while the traversal was under way
C1_Witness ==
  /\ TraversalDone /\ ~changed /\ ~deleted
  /\ req.page_size = 10 /\ req.status = None /\ Len(pages) = 3
  /\ \E r \in Rows(pages[3]) : r.id >= start_id

\* C2: on a store that does not change during the traversal, for every sort
\* key and direction the pages laid end to end are exactly the matching rows in
\* the requested (sort field, id) order
C2_StableAnyKeyComplete ==
  (TraversalDone /\ ~deleted /\ next_id = start_id) =>
    Concat(pages) = apply_sorting(Matching(db, req), req.sort_by, req.sort_order)

\* the cursor string is none of encode_cursor's tokens: it does not decode, or
\* decodes to something that is not an object, or to an object without an
\* integer id
InvalidCursor(c) ==
  LET d == decode_cursor(c)
  IN  \/ d.t # "dict"
      \/ "id" \notin DOMAIN d.o
      \/ d.o["id"].t # "int"

\* C3: a request with an invalid cursor is either rejected as a client error or
\* answered with the records and has_next of the same request without a cursor
C3_InvalidCursorHandled ==
  (resp # NoResponse /\ ~changed /\ req.cursor # None
     /\ InvalidCursor(Get(req.cursor))) =>
    \/ resp.status \in 400..499
    \/ /\ resp.status = 200
       /\ LET first == get_purchase_orders_paginated(db, [req EXCEPT !.cursor = None])
          IN  /\ resp.data = first.data
              /\ resp.meta.has_next = first.meta.has_next

\* C4: in every returned page each adjacent pair of rows is in the composite
\* (sort field value, id) order of the requested direction, rows with equal
\* sort field values being ordered by id in that same direction
C4_PageOrdered ==
  resp.status = 200 =>
    \A i \in 1..(Len(resp.data) - 1) :
      CompositeBefore(resp.data[i], resp.data[i + 1], req.sort_by, req.sort_order)

\* C4 witness: a descending page by status whose first two rows share the
\* status and come higher id first
C4_Witness ==
  /\ resp.status = 200
  /\ req.sort_by = "status" /\ req.sort_order = "desc"
  /\ Len(resp.data) >= 2
  /\ resp.data[1].status = resp.data[2].status
  /\ resp.data[1].id > resp.data[2].id

\* the id a minted cursor carries
CursorId(c) == decode_cursor(c).o["id"].n

\* the rows that satisfy request q's filters and its continuation predicate
Eligible(rows, q) ==
  {r \in Matching(rows, q) :
     q.cursor # None =>
       IF q.sort_order = "desc" THEN r.id < CursorId(Get(q.cursor))
       ELSE r.id > CursorId(Get(q.cursor))}

\* C5: a page holds exactly the first min(page_size, M) of the M rows that
\* satisfy the filters and the continuation predicate, in the resolved order,
\* never more than page_size, and has_next is true iff M > page_size
C5_PageIsPrefix ==
  (resp.status = 200 /\ ~changed) =>
    LET eligible == Eligible(db, req)
        M == Cardinality(eligible)
        sorted == apply_sorting(eligible, req.sort_by, req.sort_order)
        n == IF M < req.page_size THEN M ELSE req.page_size
    IN  /\ resp.data = SubSeq(sorted, 1, n)
        /\ Len(resp.data) <= req.page_size
        /\ resp.meta.has_next = (M > req.page_size)

\* C5 witness: a continuation page that is full (M = page_size = 2) and last
C5_Witness ==
  /\ resp.status = 200 /\ ~changed
  /\ req.cursor # None
  /\ req.page_size = 2
  /\ Cardinality(Eligible(db, req)) = 2
  /\ Len(resp.data) = 2
  /\ ~resp.meta.has_next

\* C6: the next cursor is present iff has_next, and then it decodes to the id
\* of the last row of the returned page and carries the request's sort key
C6_CursorOfLastRow ==
  resp.status = 200 =>
    /\ (resp.meta.cursor # None) <=> resp.meta.has_next
    /\ resp.meta.cursor # None =>
         LET d == decode_cursor(Get(resp.meta.cursor))
         IN  /\ d.t = "dict"
             /\ d.o["id"] = PyInt(resp.data[Len(resp.data)].id)
             /\ d.o["sort_field"] = PyStr(req.sort_by)

\* C6 witness: a two-row page with a successor, so that the last row is not
\* the first
C6_Witness ==
  /\ resp.status = 200
  /\ resp.meta.has_next
  /\ resp.meta.cursor # None
  /\ Len(resp.data) = 2

PyDate(d) == [t |-> "date", n |-> d, s |-> "", l |-> <<>>, o |-> <<>>]

\* the value row r holds for sort key `key`, as the Python value of its column
FieldValue(r, key) ==
  CASE key \in {"id", "quantity"}              -> PyInt(r[key])
    [] key \in {"total_price", "unit_price"}   -> PyFloat(r[key])
    [] key \in {"order_date", "delivery_date"} -> PyDate(r[key])
    [] key \in {"item_name", "status"}         -> PyStr(r[key])

\* the text Python's str() gives for such a value
TextOf(v) ==
  CASE v.t = "int"   -> IntStr(v.n)
    [] v.t = "float" -> FloatStr(v.n)
    [] v.t = "date"  -> DateStr(v.n)
    [] v.t = "str"   -> v.s

\* C7 as stated: the cursor minted for the last row of a page under a sort key
\* decodes to that row's id, that key, and the row's value for the key
C7_RoundTripValue ==
  (resp.status = 200 /\ resp.meta.cursor # None) =>
    LET last == resp.data[Len(resp.data)]
        d == decode_cursor(Get(resp.meta.cursor))
    IN  /\ d.o["id"] = PyInt(last.id)
        /\ d.o["sort_field"] = PyStr(req.sort_by)
        /\ d.o["sort_value"] = FieldValue(last, req.sort_by)

\* C7 as amended: the cursor minted for the last row of a page under a sort key
\* decodes to that row's id, that key, and the str() text of the row's value
\* for the key
C7_RoundTripText ==
  (resp.status = 200 /\ resp.meta.cursor # None) =>
    LET last == resp.data[Len(resp.data)]
        d == decode_cursor(Get(resp.meta.cursor))
    IN  /\ d.t = "dict"
        /\ DOMAIN d.o = {"id", "sort_field", "sort_value"}
        /\ d.o["id"] = PyInt(last.id)
        /\ d.o["sort_field"] = PyStr(req.sort_by)
        /\ d.o["sort_value"] = PyStr(TextOf(FieldValue(last, req.sort_by)))

\* C7 witness: a cursor minted under sort key total_price for a row whose
\* price is 99.99
C7_Witness ==
  /\ resp.status = 200
  /\ resp.meta.cursor # None
  /\ req.sort_by = "total_price"
  /\ resp.data[Len(resp.data)].total_price = 9999
  /\ decode_cursor(Get(resp.meta.cursor)).o["sort_value"].s = "99.99"

\* C8: has_prev is true iff a cursor was supplied on the request, whether or
\* not the cursor decodes
C8_HasPrevIffCursor ==
  resp.status = 200 => (resp.meta.has_prev <=> req.cursor # None)

\* C8 witness: a request whose cursor has broken base64 padding is answered
\* with the first page and has_prev = true
C8_Witness ==
  /\ resp.status = 200 /\ ~changed
  /\ req.cursor = Some(BadPadding)
  /\ resp.meta.has_prev
  /\ resp.data # <<>>
  /\ resp.data = get_purchase_orders_paginated(db, [req EXCEPT !.cursor = None]).data

\* the cursor string is the encoding of a structure {id, sort_field, sort_value}
CursorShaped(c) ==
  /\ c.k = "b64"
  /\ c.bytes.k = "utf8"
  /\ c.bytes.text.k = "json"
  /\ c.bytes.text.v.t = "dict"
  /\ DOMAIN c.bytes.text.v.o = {"id", "sort_field", "sort_value"}

\* C9: for every cursor string that is not the encoding of a structure
\* {id, sort field name, sort value}, decode_cursor returns None (and it never
\* raises)
C9_DecodeInvalidIsNone ==
  (req.cursor # None /\ ~CursorShaped(Get(req.cursor))) =>
    decode_cursor(Get(req.cursor)).t = "None"

\* row r satisfies every criterion request q supplies
Satisfies(r, q) ==
  /\ q.search # None =>
       \E f \in {Some(r.item_name), r.description, r.vendor, r.category} :
         f # None /\ Contains(Lower(Chars(Get(f))), Lower(Chars(Get(q.search))))
  /\ q.status # None => r.status = Get(q.status)
  /\ q.category # None => r.category = q.category
  /\ q.vendor # None => r.vendor = q.vendor
  /\ q.min_price # None => Get(q.min_price) <= r.total_price
  /\ q.max_price # None => r.total_price <= Get(q.max_price)
  /\ q.min_date # None => Get(q.min_date) <= r.order_date
  /\ q.max_date # None => r.order_date <= Get(q.max_date)

\* C10: the rows a query selects are exactly the rows that satisfy every
\* supplied criterion: search by case-insensitive containment in one of item
\* name, description, vendor, category; status, category, vendor by equality;
\* price and date by inclusive bounds, each applying alone
C10_FilterSelectsExactly ==
  (resp.status = 200 /\ ~changed /\ req.cursor = None
     /\ Cardinality(db) <= req.page_size) =>
    Rows(resp.data) = {r \in db : Satisfies(r, req)}

\* the rows of seq are strictly ascending (descending if desc) by id
IdOrdered(seq, desc) ==
  \A i \in 1..(Len(seq) - 1) :
    IF desc THEN seq[i].id > seq[i + 1].id ELSE seq[i].id < seq[i + 1].id

\* the resolver produced an ordering of the current table
Resolved == resp # NoResponse /\ resp.status = 0 /\ ~changed

\* C11 as stated: when the sort key is none of the eight supported keys the
\* resolver does not fail and the ordering is ID ascending whatever direction
\* is requested; and a direction other than asc/desc is treated as ascending
C11_FallbackIdAscending ==
  /\ (Resolved /\ req.sort_by \notin SortKeys) =>
       /\ Rows(resp.data) = db /\ Len(resp.data) = Cardinality(db)
       /\ IdOrdered(resp.data, FALSE)
  /\ (resp.status = 200 /\ req.sort_by \notin SortKeys) =>
       IdOrdered(resp.data, FALSE)
  /\ (Resolved /\ req.sort_order \notin {"asc", "desc", "DESC"}) =>
       \A i \in 1..(Len(resp.data) - 1) :
         CompositeBefore(resp.data[i], resp.data[i + 1],
                         IF req.sort_by \in SortKeys THEN req.sort_by ELSE "id", "asc")

\* C11 as amended: when the sort key is none of the eight supported keys the
\* resolver does not fail and orders by ID in the requested direction, that
\* is descending when the direction reads desc in any letter case and
\* ascending otherwise; and a direction that reads neither asc nor desc is
\* treated as ascending for every key
C11_FallbackIdInDirection ==
  /\ (Resolved /\ req.sort_by \notin SortKeys) =>
       /\ Rows(resp.data) = db /\ Len(resp.data) = Cardinality(db)
       /\ IdOrdered(resp.data, req.sort_order \in {"desc", "DESC"})
  /\ (resp.status = 200 /\ req.sort_by \notin SortKeys) =>
       IdOrdered(resp.data, req.sort_order = "desc")
  /\ (Resolved /\ req.sort_order \notin {"asc", "desc", "DESC"}) =>
       \A i \in 1..(Len(resp.data) - 1) :
         CompositeBefore(resp.data[i], resp.data[i + 1],
                         IF req.sort_by \in SortKeys THEN req.sort_by ELSE "id", "asc")

\* C11 witness: an unsupported key with direction desc resolved over three
\* rows, highest id first
C11_Witness ==
  /\ Resolved
  /\ req.sort_by = "bogus" /\ req.sort_order = "desc"
  /\ IdsOf(resp.data) = <<3, 2, 1>>

\* cursor strings that carry the given id: the id alone, and the id with
\* other sort fields and sort values
CursorsWithId(id) ==
  {TokenOf(PyDict([id |-> PyInt(id)]))}
    \cup {encode_cursor(id, k, v) :
            k \in {"id", "status", "total_price", "bogus"},
            v \in {PyInt(id), PyInt(0), PyStr("pending"), PyStr("x"), PyFloat(9999)}}

\* C12: a request whose cursor decodes to an object with integer id last_id
\* succeeds, every row it returns has id > last_id when ascending and
\* id < last_id when descending, and any other cursor with the same id,
\* whatever its sort field and sort value, gives the same response
C12_OnlyTheCursorId ==
  (resp # NoResponse /\ ~changed /\ req.cursor # None
     /\ ~InvalidCursor(Get(req.cursor))) =>
    LET last_id == CursorId(Get(req.cursor))
    IN  /\ resp.status = 200
        /\ \A r \in Rows(resp.data) :
             IF req.sort_order = "desc" THEN r.id < last_id ELSE r.id > last_id
        /\ \A c \in CursorsWithId(last_id) :
             get_purchase_orders_paginated(db, [req EXCEPT !.cursor = Some(c)]) = resp

\* C12 witness: a request sorted by status whose cursor was made for id 1
\* under total_price is answered with rows, as is the one whose cursor holds
\* the id alone
C12_Witness ==
  /\ resp.status = 200 /\ ~changed
  /\ req.sort_by = "status" /\ req.sort_order = "asc"
  /\ req.cursor = Some(encode_cursor(1, "total_price", PyFloat(50000)))
  /\ resp.data # <<>>
  /\ resp.meta.has_next

\* an identity-ascending traversal is under way
IdAscending == pages # <<>> /\ req.sort_by = "id" /\ req.sort_order = "asc"

\* C13: in an identity-ascending traversal during which rows, the cursor's
\* own row among them, may be deleted (and created): every request succeeds;
\* a continuation page holds the first page_size matching rows in the store
\* with id greater than the cursor's id, in ascending id order; the pages laid
\* end to end never hold a row twice; and when the last page has been
\* fetched every matching row that was in the store at the first fetch and
\* still is has been returned exactly once
C13_DeletionTolerated ==
  IdAscending =>
    LET seen == Concat(pages)
    IN  /\ resp.status = 200
        /\ (req.cursor # None /\ ~changed) =>
             LET rest == {r \in Matching(db, req) : r.id > CursorId(Get(req.cursor))}
             IN  /\ Rows(resp.data) \subseteq rest
                 /\ Len(resp.data) = IF Cardinality(rest) < req.page_size
                                     THEN Cardinality(rest) ELSE req.page_size
                 /\ IdOrdered(resp.data, FALSE)
                 /\ \A r \in rest \ Rows(resp.data) :
                      \A i \in 1..Len(resp.data) : resp.data[i].id < r.id
        /\ \A i, j \in 1..Len(seen) : i # j => seen[i].id # seen[j].id
        /\ (TraversalDone /\ ~changed) =>
             \A r \in Matching(db, req) :
               r.id < start_id => Cardinality({i \in 1..Len(seen) : seen[i] = r}) = 1

\* C13 witness: the row the first page's cursor was minted from was deleted
\* before the second page was fetched, and the second page holds the next row
C13_Witness ==
  /\ IdAscending /\ resp.status = 200 /\ ~changed /\ deleted
  /\ Len(pages) = 2
  /\ pages[1] # <<>> /\ pages[1][Len(pages[1])] \notin db
  /\ req.cursor # None
  /\ CursorId(Get(req.cursor)) = pages[1][Len(pages[1])].id
  /\ pages[2] # <<>>
  /\ pages[2][1] \in db

\* the larger of two numbers
Max(a, b) == IF a < b THEN b ELSE a

\* the id of the last row of the k-th page of the traversal
LastId(k) == pages[k][Len(pages[k])].id

\* the traversal has gone on with cursors only, in one direction, for every
\* sort key: the id carried by each cursor handed out is beyond the ids of
\* all cursors handed out before it, ascending or descending as requested
CursorsAdvance ==
  (pages # <<>> /\ resp.status = 200) =>
    /\ (req.cursor # None /\ resp.meta.cursor # None) =>
         IF req.sort_order = "desc"
         THEN CursorId(Get(resp.meta.cursor)) < CursorId(Get(req.cursor))
         ELSE CursorId(Get(resp.meta.cursor)) > CursorId(Get(req.cursor))
    /\ \A i, j \in 1..Len(pages) :
         (i < j /\ (j < Len(pages) \/ resp.meta.cursor # None)) =>
           IF req.sort_order = "desc" THEN LastId(j) < LastId(i)
           ELSE LastId(i) < LastId(j)
    /\ ~resp.meta.has_next => resp.meta.cursor = None

\* the store has not changed since the first page of the traversal
Stable == pages # <<>> /\ resp.status = 200 /\ ~deleted /\ next_id = start_id

\* C14 as stated: cursor ids advance strictly in the requested direction for
\* every sort key, and on a store that has stopped changing a traversal over
\* N matching rows makes at most N requests, the N-th of which is answered
\* has_next = false without a cursor
C14_ProgressWithinN ==
  /\ CursorsAdvance
  /\ Stable =>
       LET N == Cardinality(Matching(db, req))
       IN  /\ Len(pages) <= N
           /\ resp.meta.has_next => Len(pages) < N

\* C14 as amended: as stated, with the bound max(N, 1): a traversal over no
\* rows still takes the one request that is answered with the empty page
C14_ProgressWithinMaxN1 ==
  /\ CursorsAdvance
  /\ Stable =>
       LET N == Cardinality(Matching(db, req))
       IN  /\ Len(pages) <= Max(N, 1)
           /\ resp.meta.has_next => Len(pages) < Max(N, 1)

\* C14 witness: a finished descending traversal by status over three rows of
\* one status, one row a page, whose cursors carried ids 3 then 2
C14_Witness ==
  /\ Stable /\ TraversalDone
  /\ req.sort_by = "status" /\ req.sort_order = "desc"
  /\ Cardinality(Matching(db, req)) = 3
  /\ Len(pages) = 3
  /\ LastId(1) = 3 /\ LastId(2) = 2
  /\ CursorId(Get(req.cursor)) = 2

============================================================================
